---------------------------- MODULE Spec2Model ----------------------------
(***************************************************************************)
(* A model of pygrts' QuadTree (src/src/pygrts/tree.py): the constructor,  *)
(* split, split_recursive, the weighting of the quadrant table and the     *)
(* GRTS sampling built on it (sample, split_kfold, sample_train_val_test). *)
(*                                                                         *)
(* Lengths.  The constructor expands the bounding box of the points by a   *)
(* fixed offset (0.5 degrees, or 20000 linear units).  The model measures  *)
(* every length in units of offset / Scale, Scale = 2^MaxDepth, and puts   *)
(* the points on integer multiples of the offset, so that every midpoint   *)
(* computed by at most MaxDepth splits is an integer and the halving of    *)
(* the code is computed exactly.                                           *)
(*                                                                         *)
(* Tables.  A pandas frame is a sequence of rows (records); a row of a     *)
(* quadrant table holds the address uid (a sequence of digits, the string  *)
(* of the code), the quadrant's bounds and, once merged, qcounts.  The     *)
(* spatial index is the closed rectangle test of its bounding-box query.   *)
(***************************************************************************)
EXTENDS Integers, Sequences, FiniteSets, TLC

VARIABLES
    dataframe,      \* the points: a sequence of <<x, y>>, addressed by position
    force_square,   \* the constructor's argument
    tree_bounds,    \* self.tree_bounds: a sequence of <<left, bottom, right, top>>
    tree_ids,       \* self.tree_ids: a sequence of addresses
    contains_null,  \* self.contains_null: "unset" before the first split
    nsplits,        \* the number of calls of split so far
    last_split,     \* what the last call of split saw (for the statements about one split)
    rec_pc,         \* split_recursive: "idle", "loop" (in the while loop), "returned", "raised"
    rec_args,       \* split_recursive: its arguments after the first if/elif chain
    old_count,      \* split_recursive: the local old_count
    smp,            \* the call of sample: its arguments and what it ended with
    tvt,            \* the call of sample_train_val_test: its arguments and what it ended with
    kf              \* the generator of split_kfold: its arguments, its locals, the fold it yielded

treeVars == <<dataframe, force_square, tree_bounds, tree_ids, contains_null, nsplits, last_split>>
recVars == <<rec_pc, rec_args, old_count>>
callVars == <<smp, tvt, kf>>

----------------------------------------------------------------------------
(* Bounds of the model *)

\* the largest number of calls of split
MaxDepth == 2
\* the largest number of points of a free point layout
MaxPoints == 2
\* the points of a free layout lie on 0..GridMax x 0..GridMax (in offsets)
GridMax == 2
\* the thresholds passed to split are 0..MaxThresh
MaxThresh == 1
\* the largest number of rows the cluster weighting appends
MaxClusterRows == 1
\* the sampling calls are made on trees of at most MaxQuads quadrants
MaxQuads == 9
\* sample_train_val_test is called on trees of at most MaxTvtQuads quadrants
MaxTvtQuads == 5
\* the largest number of further points in the first cell of a grid layout
MaxExtra == 2
\* samples_per_grid is 1..MaxPerGrid
MaxPerGrid == 2

----------------------------------------------------------------------------
(* Arithmetic helpers *)

RECURSIVE Pow2(_)
Pow2(n) == IF n = 0 THEN 1 ELSE 2 * Pow2(n - 1)

Scale == Pow2(MaxDepth)

Min(a, b) == IF a < b THEN a ELSE b
Max(a, b) == IF a > b THEN a ELSE b
Abs(a) == IF a < 0 THEN -a ELSE a

SetMin(S) == CHOOSE x \in S : \A y \in S : x <= y
SetMax(S) == CHOOSE x \in S : \A y \in S : x >= y

RECURSIVE SumSeq(_)
SumSeq(s) == IF s = <<>> THEN 0 ELSE Head(s) + SumSeq(Tail(s))

Range(s) == {s[i] : i \in DOMAIN s}

----------------------------------------------------------------------------
(* TreeMixin and the constructor *)

\* BBox = namedtuple('BBox', 'left bottom right top')
BBox(l, b, r, t) == <<l, b, r, t>>
left(bb) == bb[1]
bottom(bb) == bb[2]
right(bb) == bb[3]
top(bb) == bb[4]

\* TreeMixin.intersection: the positions of the points the spatial index
\* returns for a rectangle, the closed bounding-box test
intersection(bbox) ==
    {i \in DOMAIN dataframe :
        /\ left(bbox) <= dataframe[i][1] /\ dataframe[i][1] <= right(bbox)
        /\ bottom(bbox) <= dataframe[i][2] /\ dataframe[i][2] <= top(bbox)}

\* the offset of the constructor, in model units
offset == Scale

\* dataframe.total_bounds of a point sequence
total_bounds(df) ==
    BBox(SetMin({df[i][1] : i \in DOMAIN df}), SetMin({df[i][2] : i \in DOMAIN df}),
         SetMax({df[i][1] : i \in DOMAIN df}), SetMax({df[i][2] : i \in DOMAIN df}))

\* the bounds expanded by the offset on every side
expanded_bounds(df) ==
    LET tb == total_bounds(df)
    IN  BBox(left(tb) - offset, bottom(tb) - offset, right(tb) + offset, top(tb) + offset)

qy_len_of(bounds) == top(bounds[1]) - bottom(bounds[1])
qx_len_of(bounds) == right(bounds[1]) - left(bounds[1])
min_qside_of(bounds) == IF qy_len_of(bounds) < qx_len_of(bounds) THEN "y" ELSE "x"

\* the properties of the tree, read from the first quadrant
qy_len == qy_len_of(tree_bounds)
qx_len == qx_len_of(tree_bounds)
min_qside == min_qside_of(tree_bounds)
qmin_of(bounds) == IF min_qside_of(bounds) = "y" THEN qy_len_of(bounds) ELSE qx_len_of(bounds)
qmax_of(bounds) == IF min_qside_of(bounds) = "x" THEN qy_len_of(bounds) ELSE qx_len_of(bounds)
qmin == qmin_of(tree_bounds)
qmax == qmax_of(tree_bounds)

\* QuadTree.__init__: the first quadrant
initial_bounds(df, fsq) ==
    LET bn == expanded_bounds(df)
    IN  IF fsq
        THEN IF min_qside_of(<<bn>>) = "y"
             THEN BBox(left(bn), top(bn) - Abs(qx_len_of(<<bn>>)), right(bn), top(bn))
             ELSE BBox(left(bn), bottom(bn), left(bn) + Abs(qy_len_of(<<bn>>)), top(bn))
        ELSE bn

----------------------------------------------------------------------------
(* split *)

\* the four children of a quadrant: 0 lower left, 1 upper left, 2 lower right, 3 upper right
qdict(quad) ==
    LET xcenter == left(quad) + (right(quad) - left(quad)) \div 2
        ycenter == top(quad) - (top(quad) - bottom(quad)) \div 2
    IN  [qid \in 0..3 |->
            CASE qid = 0 -> BBox(left(quad), bottom(quad), xcenter, ycenter)
              [] qid = 1 -> BBox(left(quad), ycenter, xcenter, top(quad))
              [] qid = 2 -> BBox(xcenter, bottom(quad), right(quad), ycenter)
              [] qid = 3 -> BBox(xcenter, ycenter, right(quad), top(quad))]

\* a mutation of child_id: the parent's address is dropped
child_id_without_parent(quad_id, qid) == <<qid>>

\* the address of a kept child, f"{quad_id}{qid}"
child_id(quad_id, qid) == Append(quad_id, qid)

\* the children of every quadrant, in the order the loops of split visit them
children(bounds, ids) ==
    [k \in 1..(4 * Len(bounds)) |->
        LET qi == ((k - 1) \div 4) + 1
            qid == (k - 1) % 4
        IN  [uid |-> child_id(ids[qi], qid), bbox |-> qdict(bounds[qi])[qid], parent |-> qi, qid |-> qid]]

\* a mutation of keeps_child: a child of exactly thresh points is kept
keeps_child_at_thresh(child, thresh) ==
    LET id_list == intersection(child.bbox)
    IN  id_list # {} /\ Cardinality(id_list) >= thresh

\* whether split keeps a child: it holds points, and more than thresh of them
keeps_child(child, thresh) ==
    LET id_list == intersection(child.bbox)
    IN  id_list # {} /\ Cardinality(id_list) > thresh

kept_children(bounds, ids, thresh) ==
    SelectSeq(children(bounds, ids), LAMBDA c : keeps_child(c, thresh))

\* counts: the number of points of each quadrant that holds any, by position
counts_of(bounds) == [i \in DOMAIN bounds |-> Cardinality(intersection(bounds[i]))]
counts == counts_of(tree_bounds)
\* the largest count, self.counts[max(self.counts, key=self.counts.get)]
max_count_of(bounds) == SetMax(Range(counts_of(bounds)))

\* QuadTree.split(thresh)
split(thresh) ==
    LET all == children(tree_bounds, tree_ids)
        kept == kept_children(tree_bounds, tree_ids, thresh)
        dropped == SelectSeq(all, LAMBDA c : ~keeps_child(c, thresh))
    IN  /\ tree_bounds' = [i \in DOMAIN kept |-> kept[i].bbox]
        /\ tree_ids' = [i \in DOMAIN kept |-> kept[i].uid]
        /\ contains_null' = IF dropped # <<>> THEN "True" ELSE "False"
        /\ nsplits' = nsplits + 1
        /\ last_split' =
              [thresh |-> thresh,
               before |-> SumSeq(counts),
               max_before |-> IF tree_bounds = <<>> THEN 0 ELSE max_count_of(tree_bounds),
               discarded |-> SumSeq([i \in DOMAIN dropped |-> Cardinality(intersection(dropped[i].bbox))]),
               kept |-> {<<c.parent, c.qid>> : c \in Range(kept)},
               dropped |-> {<<c.parent, c.qid>> : c \in Range(dropped)},
               parents |-> tree_ids]

----------------------------------------------------------------------------
(* split_recursive *)

\* an optional argument: None, or a value
None == <<>>
Some(v) == <<v>>
IsNone(a) == a = <<>>
Val(a) == a[1]

\* the if/elif chain at the head of split_recursive: the selector of highest
\* preference silences the others; with no selector nothing is changed
normalised(max_samples, max_length, first_null, min_thresh) ==
    IF first_null
    THEN [max_samples |-> None, max_length |-> None, first_null |-> TRUE, min_thresh |-> min_thresh]
    ELSE IF ~IsNone(max_length)
    THEN [max_samples |-> None, max_length |-> max_length, first_null |-> FALSE, min_thresh |-> min_thresh]
    ELSE IF ~IsNone(max_samples)
    THEN [max_samples |-> max_samples, max_length |-> None, first_null |-> FALSE, min_thresh |-> min_thresh]
    ELSE [max_samples |-> max_samples, max_length |-> max_length, first_null |-> first_null,
          min_thresh |-> min_thresh]

\* a mutation of length_reached: the comparison inverted
length_reached_inverted(bounds, max_length) == qmax_of(bounds) >= max_length

\* the test of the max_length policy after a split
length_reached(bounds, max_length) == qmax_of(bounds) <= max_length

\* a mutation of samples_reached: without the test against the last maximum
samples_reached_without_guard(max_count, max_samples, old) == max_count <= max_samples

\* the tests of the max_samples policy after a split: the largest count is
\* small enough, or it is what it was after the split before
samples_reached(max_count, max_samples, old) == max_count <= max_samples \/ max_count = old

\* the call of split_recursive, up to the while loop
split_recursive(max_samples, max_length, first_null, min_thresh) ==
    /\ rec_pc = "idle"
    /\ rec_args' = normalised(max_samples, max_length, first_null, min_thresh)
    /\ old_count' = 1000000000
    /\ rec_pc' = "loop"
    /\ UNCHANGED <<treeVars, callVars>>

\* one iteration of the while loop: split, then the test of the active policy.
\* A test that reads the first quadrant or the largest count of an empty tree
\* raises (IndexError, ValueError).
loop_iteration ==
    /\ rec_pc = "loop"
    /\ split(rec_args.min_thresh)
    /\ UNCHANGED <<dataframe, force_square, rec_args, callVars>>
    /\ IF ~IsNone(rec_args.max_length)
       THEN /\ rec_pc' = IF tree_bounds' = <<>> THEN "raised"
                         ELSE IF length_reached(tree_bounds', Val(rec_args.max_length)) THEN "returned"
                         ELSE "loop"
            /\ UNCHANGED old_count
       ELSE IF rec_args.first_null
       THEN /\ rec_pc' = IF contains_null' = "True" THEN "returned" ELSE "loop"
            /\ UNCHANGED old_count
       ELSE IF ~IsNone(rec_args.max_samples)
       THEN IF tree_bounds' = <<>>
            THEN rec_pc' = "raised" /\ UNCHANGED old_count
            ELSE LET max_count == max_count_of(tree_bounds')
                 IN  IF samples_reached(max_count, Val(rec_args.max_samples), old_count)
                     THEN rec_pc' = "returned" /\ UNCHANGED old_count
                     ELSE rec_pc' = "loop" /\ old_count' = max_count
       ELSE rec_pc' = "loop" /\ UNCHANGED old_count

----------------------------------------------------------------------------
(* Quadrant tables *)

\* the order of the addresses: the order of Python strings
RECURSIVE UidLess(_, _)
UidLess(a, b) ==
    IF b = <<>> THEN FALSE
    ELSE IF a = <<>> THEN TRUE
    ELSE IF Head(a) # Head(b) THEN Head(a) < Head(b)
    ELSE UidLess(Tail(a), Tail(b))

\* a sequence with a row inserted before the first row of a greater address
RECURSIVE InsertRow(_, _)
InsertRow(row, sorted) ==
    IF sorted = <<>> THEN <<row>>
    ELSE IF UidLess(row.uid, Head(sorted).uid) THEN <<row>> \o sorted
    ELSE <<Head(sorted)>> \o InsertRow(row, Tail(sorted))

\* df.sort_values(by=ID_COLUMN)
RECURSIVE sort_values(_)
sort_values(df) ==
    IF df = <<>> THEN <<>> ELSE InsertRow(df[Len(df)], sort_values(SubSeq(df, 1, Len(df) - 1)))

\* the uid column of a table, as a sequence and as a set
uids(df) == [i \in DOMAIN df |-> df[i].uid]
uid_set(df) == {df[i].uid : i \in DOMAIN df}

\* df[ID_COLUMN].duplicated().any()
has_duplicates(df) == \E i, j \in DOMAIN df : i # j /\ df[i].uid = df[j].uid

\* df.query(f"uid != {other[ID_COLUMN].tolist()}"): the rows whose address is not in the list
query_not_in(df, other) == SelectSeq(df, LAMBDA row : row.uid \notin uid_set(other))

\* to_frame() merged with counts_to_frame() on the address: the quadrants
\* that hold points, with their counts
frame_with_counts ==
    LET frame == [i \in DOMAIN tree_ids |->
                    [uid |-> tree_ids[i], bbox |-> tree_bounds[i], qcounts |-> counts[i]]]
    IN  SelectSeq(frame, LAMBDA row : row.qcounts > 0)

\* len(self)
nquads == Len(tree_bounds)

----------------------------------------------------------------------------
(* Weighting *)

\* a row repeated k times
RECURSIVE Repeat(_, _)
Repeat(row, k) == IF k <= 0 THEN <<>> ELSE <<row>> \o Repeat(row, k - 1)

\* how often weight_upsample repeats a row of count qcounts when the largest
\* count is qmax_count: with oversample = 1.0 / (qcounts / qmax_count),
\* int(oversample) times if oversample > 1 ('inverse-density'), once if
\* oversample > 2 (otherwise).  For counts up to 60 the floating-point
\* quotient truncates to qmax_count \div qcounts and compares with 1 and 2
\* as the exact quotient does.
repeats(qcounts, qmax_count, weight_method) ==
    IF weight_method = "inverse-density"
    THEN IF qmax_count > qcounts THEN qmax_count \div qcounts ELSE 0
    ELSE IF qmax_count > 2 * qcounts THEN 1 ELSE 0

\* the rows of over_df, flattened
RECURSIVE over_rows(_, _, _)
over_rows(df, qmax_count, weight_method) ==
    IF df = <<>> THEN <<>>
    ELSE Repeat(Head(df), repeats(Head(df).qcounts, qmax_count, weight_method))
            \o over_rows(Tail(df), qmax_count, weight_method)

\* QuadTree.weight_upsample
weight_upsample(grid_df, weight_method) ==
    IF grid_df = <<>> THEN grid_df
    ELSE LET over_df == over_rows(grid_df, SetMax({grid_df[i].qcounts : i \in DOMAIN grid_df}), weight_method)
         IN  IF over_df # <<>> THEN sort_values(grid_df \o over_df) ELSE grid_df

\* the rows at 1..k positions of a table, from position lo on, in the order of
\* the table (the table is sorted after the rows are appended, so the order of
\* appending is not read)
RECURSIVE RowSeqs(_, _, _)
RowSeqs(df, k, lo) ==
    IF k = 0 THEN {<<>>}
    ELSE {<<>>} \cup UNION {{<<df[i]>> \o rest : rest \in RowSeqs(df, k - 1, i)} : i \in lo..Len(df)}

\* QuadTree.weight_grids: the frame with the quadrants nearest to the cluster
\* centres appended.  The clustering is a library's; the model appends any
\* 1..MaxClusterRows rows of the frame, a row as often as chosen.
weight_grids ==
    {frame_with_counts \o extra : extra \in RowSeqs(frame_with_counts, MaxClusterRows, 1) \ {<<>>}}

\* QuadTree._preprocess_grid: the tables it can return.  grid_df is None or
\* Some(table); a table passed in is not weighted by 'cluster'.
preprocess_grid(weight_method, grid_df) ==
    LET frames == IF IsNone(grid_df)
                  THEN IF weight_method = "cluster" THEN weight_grids ELSE {frame_with_counts}
                  ELSE {Val(grid_df)}
    IN  {IF weight_method \in {"density-factor", "inverse-density"}
         THEN weight_upsample(sort_values(f), weight_method)
         ELSE sort_values(f) : f \in frames}

----------------------------------------------------------------------------
(* The GRTS sampler *)

SubsetsOfSize(S, k) == {T \in SUBSET S : Cardinality(T) = k}

\* a set of numbers in ascending order
RECURSIVE Sorted(_)
Sorted(S) == IF S = {} THEN <<>> ELSE <<SetMin(S)>> \o Sorted(S \ {SetMin(S)})

\* what a call can end with
Raised(error) == [error |-> error, grid_df |-> <<>>, point_df |-> <<>>, rows |-> <<>>]
Returned(grid_df, points, rows) == [error |-> "", grid_df |-> grid_df, point_df |-> Sorted(points), rows |-> rows]

\* QuadTree._get_skip, for n # 0: int(ceil(num_grids / n))
get_skip(df, n) == (Len(df) + n - 1) \div n

\* df.iloc[::skip]
every_nth(df, skip) == [k \in 1..((Len(df) + skip - 1) \div skip) |-> df[(k - 1) * skip + 1]]

\* the points one row contributes: the first samples_per_grid of its shuffled
\* points, any subset of that size
row_samples(row, samples_per_grid) ==
    LET qsamples == intersection(row.bbox)
    IN  SubsetsOfSize(qsamples, Min(samples_per_grid, Cardinality(qsamples)))

\* the sets of points the loop over the selected rows can collect
RECURSIVE collected(_, _)
collected(df_sample, samples_per_grid) ==
    IF df_sample = <<>> THEN {{}}
    ELSE {S \cup T : S \in row_samples(Head(df_sample), samples_per_grid),
                     T \in collected(Tail(df_sample), samples_per_grid)}

\* the test of _sample_grids for topping up the systematic draw
needs_top_up(grid_df, df_sample, n) == 2 * n > Len(grid_df)

\* QuadTree._sample_grids (no strata, no distance weights): what it can return.
\* The rows sampled are kept beside the points drawn from them.
sample_grids(grid_df, df_sample, n, samples_per_grid) ==
    IF needs_top_up(grid_df, df_sample, n)
    THEN LET rest == query_not_in(grid_df, df_sample)
             k == n - Len(df_sample)
         IN  IF k > Len(rest) \/ k < 0
             THEN {Raised("ValueError")}
             ELSE UNION {LET rows == df_sample \o [i \in 1..k |-> rest[Sorted(T)[i]]]
                         IN  {Returned(df_sample, S, rows) : S \in collected(rows, samples_per_grid)}
                           : T \in SubsetsOfSize(DOMAIN rest, k)}
    ELSE {Returned(df_sample, S, df_sample) : S \in collected(df_sample, samples_per_grid)}

\* QuadTree.sample_split: what it can return.  n = 0 divides by zero in
\* _get_skip; an empty table has no start to choose and no step to slice by.
sample_split(df, n, samples_per_grid, seed_start) ==
    IF n = 0 THEN {Raised("ZeroDivisionError")}
    ELSE IF df = <<>> THEN {Raised("ValueError")}
    ELSE UNION {LET trimmed == SubSeq(df, start_seed + 1, Len(df))
                IN  sample_grids(trimmed, every_nth(trimmed, get_skip(trimmed, n)), n, samples_per_grid)
                  : start_seed \in IF seed_start THEN 0..(get_skip(df, n) - 1) ELSE {0}}

----------------------------------------------------------------------------
(* The quadrant tree under split *)

Coords == {c * Scale : c \in 0..GridMax}

\* the order of the rows of a layout: by x, then by y
PointLeq(p, q) == p[1] < q[1] \/ (p[1] = q[1] /\ p[2] <= q[2])

\* the free layouts: 1..MaxPoints points on the grid, coincident points
\* included.  The tree does not read the order of the rows, so one order of
\* each multiset of points is kept.
FreeLayouts ==
    UNION {{df \in [1..n -> Coords \X Coords] : \A i \in 1..(n - 1) : PointLeq(df[i], df[i + 1])}
              : n \in 1..MaxPoints}

NoSplit == [thresh |-> 0, before |-> 0, max_before |-> 0, discarded |-> 0, kept |-> {}, dropped |-> {}, parents |-> <<>>]

InitTree(layouts, squares) ==
    /\ dataframe \in layouts
    /\ force_square \in squares
    /\ tree_bounds = <<initial_bounds(dataframe, force_square)>>
    /\ tree_ids = << <<>> >>
    /\ contains_null = "unset"
    /\ nsplits = 0
    /\ last_split = NoSplit

InitRec ==
    /\ rec_pc = "idle"
    /\ rec_args = normalised(None, None, FALSE, 0)
    /\ old_count = 0

NoCall == [status |-> "none"]

InitCalls ==
    /\ smp = NoCall
    /\ tvt = NoCall
    /\ kf = [pc |-> "none"]

Init == InitTree(FreeLayouts, BOOLEAN) /\ InitRec /\ InitCalls

Split ==
    /\ nsplits < MaxDepth
    /\ \E thresh \in 0..MaxThresh : split(thresh)
    /\ UNCHANGED <<dataframe, force_square>>
    /\ UNCHANGED <<recVars, callVars>>

Next == Split

vars == <<treeVars, recVars, callVars>>

Spec == Init /\ [][Next]_vars

\* the values of max_length: the longest side a first quadrant can have,
\* halved up to MaxDepth times, so that the policy is met within MaxDepth splits
MaxLengths == {(GridMax + 2) * Pow2(k) : k \in 0..MaxDepth}

SplitRecursive ==
    \E max_samples \in {None} \cup {Some(m) : m \in 1..MaxPoints},
       max_length \in {None} \cup {Some(l) : l \in MaxLengths},
       first_null \in BOOLEAN,
       min_thresh \in 0..MaxThresh :
        split_recursive(max_samples, max_length, first_null, min_thresh)

LoopIteration ==
    /\ nsplits < MaxDepth
    /\ loop_iteration

NextRec == SplitRecursive \/ LoopIteration

\* The steps of NextRec that are iterations of the loop: LoopProgress /\ NextRec
\* is LoopIteration, and the two are enabled in the same states (split is
\* always possible), so WF_nsplits(LoopProgress) is WF_vars(LoopIteration).
LoopProgress == rec_pc = "loop" /\ nsplits < MaxDepth /\ nsplits' = nsplits + 1

\* split_recursive runs on once called: its loop is sequential code
SpecRec == Init /\ [][NextRec]_vars /\ WF_nsplits(LoopProgress)

----------------------------------------------------------------------------
(* Sampling: the point layouts and the calls *)

RECURSIVE Pow4(_)
Pow4(n) == IF n = 0 THEN 1 ELSE 4 * Pow4(n - 1)

\* the column and row of the k-th cell (from 0, in address order) of the grid
\* of depth d: the digits of k to the base 4 are its address
RECURSIVE CellXY(_, _)
CellXY(k, d) ==
    IF d = 0 THEN <<0, 0>>
    ELSE LET digit == k \div Pow4(d - 1)
             rest == CellXY(k % Pow4(d - 1), d - 1)
         IN  <<(digit \div 2) * Pow2(d - 1) + rest[1], (digit % 2) * Pow2(d - 1) + rest[2]>>

\* the centre of a cell of the grid of depth MaxDepth, whose cells have sides
\* of two offsets when the points span its first and last cell
CellCentre(k) == <<2 * Scale * CellXY(k, MaxDepth)[1], 2 * Scale * CellXY(k, MaxDepth)[2]>>

\* a grid layout: one point at the centre of the last cell and of each of the
\* first q - 1 cells, extra further points in the first cell, and with shared
\* a point on the edge between the first and the second cell
GridLayout(q, extra, shared) ==
    <<CellCentre(Pow4(MaxDepth) - 1)>>
        \o [k \in 1..(q - 1) |-> CellCentre(k - 1)]
        \o [k \in 1..extra |-> CellCentre(0)]
        \o (IF shared THEN << <<0, Scale>> >> ELSE <<>>)

GridLayoutsTo(quads) ==
    {GridLayout(q, extra, shared) : q \in 2..quads, extra \in 0..MaxExtra, shared \in BOOLEAN}

GridLayouts == GridLayoutsTo(MaxQuads)

WeightMethods == {"none", "density-factor", "inverse-density", "cluster"}

InitSampling == InitTree(GridLayouts, {TRUE}) /\ InitRec /\ InitCalls

\* QuadTree.sample
sample(n, samples_per_grid, weight_method) ==
    \E grid_df \in preprocess_grid(weight_method, None) :
        \E out \in sample_split(grid_df, n, samples_per_grid, TRUE) :
            smp' = [status |-> IF out.error = "" THEN "returned" ELSE "raised",
                    error |-> out.error,
                    n |-> n, samples_per_grid |-> samples_per_grid, weight_method |-> weight_method,
                    pool |-> grid_df, rows |-> out.rows, samples_df |-> out.point_df]

\* the tree is split before the sampling call is made
SplitBeforeSample ==
    /\ smp = NoCall
    /\ Split

Sample ==
    /\ smp = NoCall
    /\ nquads <= MaxQuads
    /\ \E n \in 0..(nquads + 1), samples_per_grid \in 1..MaxPerGrid, weight_method \in WeightMethods :
          sample(n, samples_per_grid, weight_method)
    /\ UNCHANGED <<treeVars, recVars, tvt, kf>>

NextSample == SplitBeforeSample \/ Sample

SpecSample == InitSampling /\ [][NextSample]_vars

----------------------------------------------------------------------------
(* sample_train_val_test *)

\* the fractions passed, as <<numerator, denominator>>: 0.5, 0.75 and 1.0,
\* which are exact as floating-point numbers, so that int(len * frac) is the
\* quotient
Fractions == {<<1, 2>>, <<3, 4>>, <<1, 1>>}

\* int(len(grid_df.index) * frac)
frac_of(len, frac) == (len * frac[1]) \div frac[2]

\* SampleSplit.set_splits
SampleSplit(grid_df, point_df) == [grid_df |-> grid_df, point_df |-> point_df]

\* a mutation of remove_sampled: only the first sampled address is removed
remove_sampled_first(grid_df, sampled) == query_not_in(grid_df, SubSeq(sampled, 1, 1))

\* the table left for the next draw: grid_df.query(f"uid != {sampled uids}")
remove_sampled(grid_df, sampled) == query_not_in(grid_df, sampled)

\* QuadTree.sample_train_val_test: three draws, each from the table without
\* the addresses of the grid tables drawn before; an error of a draw ends the call
sample_train_val_test(test_frac, val_frac, train_frac, samples_per_grid, weight_method) ==
    LET args == [test_frac |-> test_frac, val_frac |-> val_frac, train_frac |-> train_frac,
                 samples_per_grid |-> samples_per_grid, weight_method |-> weight_method]
        raised(error) == [status |-> "raised", error |-> error, args |-> args]
    IN  \E grid_df \in preprocess_grid(weight_method, None) :
        \E test \in sample_split(grid_df, frac_of(Len(grid_df), test_frac), samples_per_grid, TRUE) :
            IF test.error # "" THEN tvt' = raised(test.error)
            ELSE LET val_grid_df == remove_sampled(grid_df, test.grid_df)
                 IN  \E val \in sample_split(val_grid_df, frac_of(Len(val_grid_df), val_frac),
                                            samples_per_grid, TRUE) :
                     IF val.error # "" THEN tvt' = raised(val.error)
                     ELSE LET train_grid_df == remove_sampled(val_grid_df, val.grid_df)
                          IN  \E train \in sample_split(train_grid_df, frac_of(Len(train_grid_df), train_frac),
                                                      samples_per_grid, TRUE) :
                              IF train.error # "" THEN tvt' = raised(train.error)
                              ELSE tvt' = [status |-> "returned", args |-> args, pool |-> grid_df,
                                           train |-> SampleSplit(train.grid_df, train.point_df),
                                           val |-> SampleSplit(val.grid_df, val.point_df),
                                           test |-> SampleSplit(test.grid_df, test.point_df)]

SplitBeforeTrainValTest ==
    /\ tvt = NoCall
    /\ Split

SampleTrainValTest ==
    /\ tvt = NoCall
    /\ nquads <= MaxTvtQuads
    /\ \E test_frac \in Fractions, val_frac \in Fractions, train_frac \in Fractions,
          samples_per_grid \in 1..MaxPerGrid, weight_method \in WeightMethods :
          sample_train_val_test(test_frac, val_frac, train_frac, samples_per_grid, weight_method)
    /\ UNCHANGED <<treeVars, recVars, smp, kf>>

NextTrainValTest == SplitBeforeTrainValTest \/ SampleTrainValTest

InitTrainValTest == InitTree(GridLayoutsTo(MaxTvtQuads), {TRUE}) /\ InitRec /\ InitCalls

SpecTrainValTest == InitTrainValTest /\ [][NextTrainValTest]_vars

----------------------------------------------------------------------------
(* split_kfold *)

\* a mutation of integrity_error: the test table is not checked for duplicates
integrity_error_unchecked_test(train_split_grid_df, test_split_grid_df) ==
    IF has_duplicates(train_split_grid_df) THEN "There was train id duplication."
    ELSE IF uid_set(test_split_grid_df) \cap uid_set(train_split_grid_df) # {}
    THEN "There was test leakage into train splits."
    ELSE ""

\* the three checks of a fold: the message of the ValueError, "" if none is raised
integrity_error(train_split_grid_df, test_split_grid_df) ==
    IF has_duplicates(train_split_grid_df) THEN "There was train id duplication."
    ELSE IF has_duplicates(test_split_grid_df) THEN "There was test id duplication."
    ELSE IF uid_set(test_split_grid_df) \cap uid_set(train_split_grid_df) # {}
    THEN "There was test leakage into train splits."
    ELSE ""

\* a mutation of remove_test_grids: only the first test address is removed
remove_first_test_grid(reduce_grid, test_split_grid_df) ==
    query_not_in(reduce_grid, SubSeq(test_split_grid_df, 1, 1))

\* the pool of the next fold: the pool without this fold's test addresses
remove_test_grids(reduce_grid, test_split_grid_df) == query_not_in(reduce_grid, test_split_grid_df)

\* split_kfold(...): the generator is made; its body runs on the first next()
split_kfold(n_splits, samples_per_grid, weight_method) ==
    kf' = [pc |-> "created", n_splits |-> n_splits, samples_per_grid |-> samples_per_grid,
           weight_method |-> weight_method]

\* the generator's locals when its body starts
kfold_locals ==
    IF kf.pc = "created"
    THEN [full_grid_df |-> frame_with_counts, reduce_grid |-> frame_with_counts,
          split_size |-> nquads \div kf.n_splits, split_idx |-> 0, tests |-> <<>>]
    ELSE [full_grid_df |-> kf.full_grid_df, reduce_grid |-> kf.reduce_grid,
          split_size |-> kf.split_size, split_idx |-> kf.split_idx, tests |-> kf.tests]

\* next() on the generator: the body up to the next yield, an error, or the end
kfold_next ==
    LET loc == kfold_locals
        base == [n_splits |-> kf.n_splits, samples_per_grid |-> kf.samples_per_grid,
                 weight_method |-> kf.weight_method, full_grid_df |-> loc.full_grid_df,
                 split_size |-> loc.split_size]
    IN  IF loc.split_idx >= kf.n_splits
        THEN kf' = base @@ [pc |-> "exhausted", reduce_grid |-> loc.reduce_grid,
                            split_idx |-> loc.split_idx, tests |-> loc.tests]
        ELSE \E grid_df \in preprocess_grid(kf.weight_method, Some(loc.reduce_grid)) :
             \E test \in sample_split(grid_df, loc.split_size, kf.samples_per_grid, FALSE) :
                 IF test.error # ""
                 THEN kf' = base @@ [pc |-> "raised", error |-> test.error, reduce_grid |-> loc.reduce_grid,
                                     split_idx |-> loc.split_idx, tests |-> loc.tests]
                 ELSE LET train_split_grid_df == query_not_in(loc.full_grid_df, test.grid_df)
                          train_points == (DOMAIN dataframe) \ Range(test.point_df)
                          fold == [train |-> SampleSplit(train_split_grid_df, Sorted(train_points)),
                                   test |-> SampleSplit(test.grid_df, test.point_df),
                                   pool |-> grid_df]
                          error == integrity_error(train_split_grid_df, test.grid_df)
                      IN  IF error # ""
                          THEN kf' = base @@ [pc |-> "raised", error |-> error, fold |-> fold,
                                              reduce_grid |-> loc.reduce_grid,
                                              split_idx |-> loc.split_idx, tests |-> loc.tests]
                          ELSE kf' = base @@ [pc |-> "yielded", fold |-> fold,
                                              reduce_grid |-> remove_test_grids(loc.reduce_grid, test.grid_df),
                                              split_idx |-> loc.split_idx + 1,
                                              tests |-> Append(loc.tests, uid_set(test.grid_df))]

SplitBeforeKFold ==
    /\ kf.pc = "none"
    /\ Split

SplitKFold ==
    /\ kf.pc = "none"
    /\ nquads <= MaxQuads
    /\ \E n_splits \in 1..(nquads + 1), samples_per_grid \in 1..MaxPerGrid, weight_method \in WeightMethods :
          split_kfold(n_splits, samples_per_grid, weight_method)
    /\ UNCHANGED <<treeVars, recVars, smp, tvt>>

KFoldNext ==
    /\ kf.pc \in {"created", "yielded"}
    /\ kfold_next
    /\ UNCHANGED <<treeVars, recVars, smp, tvt>>

NextKFold == SplitBeforeKFold \/ SplitKFold \/ KFoldNext

SpecKFold == InitSampling /\ [][NextKFold]_vars

----------------------------------------------------------------------------
(* Addresses after N splits *)

IsBase4(uid) == \A k \in DOMAIN uid : uid[k] \in 0..3

\* C1: after N calls of split (any thresholds) every surviving quadrant's
\* address has length exactly N and only the digits 0..3, and no two
\* surviving quadrants share an address.
C1_AddressesAfterNSplits ==
    /\ \A i \in DOMAIN tree_ids : Len(tree_ids[i]) = nsplits /\ IsBase4(tree_ids[i])
    /\ \A i, j \in DOMAIN tree_ids : i # j => tree_ids[i] # tree_ids[j]

\* C1's case: two splits have been made and several quadrants survive
C1_Witness == nsplits >= 2 /\ Len(tree_ids) >= 3

----------------------------------------------------------------------------
(* Point counts across one split *)

\* C9: the sum of the per-quadrant point counts after a split equals the sum
\* before the split minus the number of points inside the children that the
\* split discarded, for any layout and threshold.
C9_SplitConservesCounts ==
    nsplits > 0 => SumSeq(counts) = last_split.before - last_split.discarded

----------------------------------------------------------------------------
(* split_recursive with max_length *)

MinSide(bb) == Min(right(bb) - left(bb), top(bb) - bottom(bb))

\* the call of C10: max_length given, first_null false, min_thresh 0
MaxLengthCall == ~IsNone(rec_args.max_length) /\ rec_args.min_thresh = 0

\* C10: split_recursive with max_length = L > 0 (first_null false, min_thresh
\* 0) terminates, and when it returns every quadrant's minimum side is <= L.
C10_MaxLengthTerminates ==
    /\ [](rec_pc = "returned" /\ MaxLengthCall =>
            \A i \in DOMAIN tree_bounds : MinSide(tree_bounds[i]) <= Val(rec_args.max_length))
    /\ ((rec_pc = "loop" /\ MaxLengthCall) ~> (rec_pc = "returned"))

\* C10's case: the call returned after several splits of a first quadrant
\* that was not forced square and is not square
C10_Witness ==
    /\ rec_pc = "returned" /\ MaxLengthCall
    /\ ~force_square /\ nsplits >= 2
    /\ tree_bounds # <<>> /\ qx_len # qy_len

----------------------------------------------------------------------------
(* sample(n) *)

\* the quadrants of a table hold pairwise disjoint sets of points
DisjointQuadrants(df) ==
    \A i, j \in DOMAIN df :
        df[i].uid # df[j].uid => intersection(df[i].bbox) \cap intersection(df[j].bbox) = {}

StrictlyAscending(seq) == \A i \in 1..(Len(seq) - 1) : seq[i] < seq[i + 1]

\* the call of C8: one sample per grid, no weighting, at least n quadrants,
\* all holding points that no other quadrant holds
PlainSampleCall ==
    /\ smp.status # "none"
    /\ smp.samples_per_grid = 1 /\ smp.weight_method = "none"
    /\ smp.n >= 1 /\ Len(smp.pool) >= smp.n
    /\ DisjointQuadrants(smp.pool)

\* C8: sample(n) with samples_per_grid = 1 and no weighting, on P >= n
\* quadrants with disjoint point sets, returns exactly n distinct point
\* identifiers, in strictly ascending order, each inside a selected quadrant.
C8_SampleReturnsN ==
    PlainSampleCall =>
        /\ smp.status = "returned"
        /\ Len(smp.samples_df) = smp.n
        /\ StrictlyAscending(smp.samples_df)
        /\ \A k \in DOMAIN smp.samples_df :
              \E r \in DOMAIN smp.rows : smp.samples_df[k] \in intersection(smp.rows[r].bbox)

----------------------------------------------------------------------------
(* The splits of sample_train_val_test *)

Disjoint3(a, b, c) == a \cap b = {} /\ a \cap c = {} /\ b \cap c = {}

\* C2: for every Splits that sample_train_val_test returns, under any weight
\* method, no quadrant address is in two of the train, val and test grid tables.
C2_GridAddressesDisjoint ==
    tvt.status = "returned" =>
        Disjoint3(uid_set(tvt.train.grid_df), uid_set(tvt.val.grid_df), uid_set(tvt.test.grid_df))

\* C2's case: a call returned whose weighted table held an address several times
C2_Witness ==
    /\ tvt.status = "returned"
    /\ tvt.args.weight_method = "inverse-density"
    /\ has_duplicates(tvt.pool)
    /\ Len(tvt.test.grid_df) >= 2

\* C3: for every Splits that sample_train_val_test returns, no point is in
\* two of the train, val and test point tables, for every point layout.
C3_PointsDisjoint ==
    tvt.status = "returned" =>
        Disjoint3(Range(tvt.train.point_df), Range(tvt.val.point_df), Range(tvt.test.point_df))

\* C5: for every Splits that sample_train_val_test returns under the weight
\* methods that repeat rows of the table ('inverse-density', 'density-factor')
\* or none, no grid table holds an address twice (the call fails otherwise).
C5_NoDuplicateAddresses ==
    tvt.status = "returned" /\ tvt.args.weight_method \in {"none", "inverse-density", "density-factor"} =>
        /\ ~has_duplicates(tvt.train.grid_df)
        /\ ~has_duplicates(tvt.val.grid_df)
        /\ ~has_duplicates(tvt.test.grid_df)

----------------------------------------------------------------------------
(* The folds of split_kfold *)

IntegrityErrors ==
    {"There was train id duplication.", "There was test id duplication.",
     "There was test leakage into train splits."}

FoldIsSound(fold) ==
    /\ ~has_duplicates(fold.train.grid_df)
    /\ ~has_duplicates(fold.test.grid_df)
    /\ uid_set(fold.train.grid_df) \cap uid_set(fold.test.grid_df) = {}

\* C4: every fold that split_kfold yields, under any weight method, has no
\* address twice in its train grid table, none twice in its test grid table,
\* and no address in both; the generator raises at a fold that fails one of
\* the three, and raises an integrity error at no other fold.
C4_YieldedFoldsAreSound ==
    /\ kf.pc = "yielded" => FoldIsSound(kf.fold)
    /\ kf.pc = "raised" /\ kf.error \in IntegrityErrors => ~FoldIsSound(kf.fold)

\* C4's case: a fold was yielded from a weighted pool that held an address
\* several times
C4_Witness ==
    /\ kf.pc = "yielded"
    /\ kf.weight_method = "inverse-density"
    /\ has_duplicates(kf.fold.pool)
    /\ kf.split_idx >= 2

\* the generator has run its body at least once
KFoldStarted == kf.pc \in {"yielded", "raised", "exhausted"}

\* split_kfold without weighting on a tree whose quadrant count n_splits divides
EvenKFold ==
    /\ KFoldStarted
    /\ kf.weight_method = "none"
    /\ Len(kf.full_grid_df) % kf.n_splits = 0

\* C6: in split_kfold without weighting, when n_splits divides the quadrant
\* count, no fold raises (on a tree that has quadrants), the test address
\* sets of the folds are pairwise disjoint, after each fold the pool is the
\* full set without the test addresses so far, and after the last fold the
\* pool is empty and the test sets cover the full set.
C6_TestFoldsPartition ==
    EvenKFold =>
        /\ Len(kf.full_grid_df) >= 1 => kf.pc # "raised"
        /\ \A i, j \in DOMAIN kf.tests : i # j => kf.tests[i] \cap kf.tests[j] = {}
        /\ uid_set(kf.reduce_grid) = uid_set(kf.full_grid_df) \ UNION Range(kf.tests)
        /\ kf.split_idx = kf.n_splits =>
              /\ kf.reduce_grid = <<>>
              /\ UNION Range(kf.tests) = uid_set(kf.full_grid_df)

\* C6's case: the last of several folds of several quadrants each was yielded
C6_Witness ==
    /\ EvenKFold /\ kf.pc = "yielded"
    /\ kf.n_splits >= 3 /\ kf.split_idx = kf.n_splits
    /\ kf.split_size >= 2

\* C7: in split_kfold without weighting, for 1 <= n_splits <= quadrant count,
\* every yielded fold has a test grid table of exactly
\* floor(quadrant count / n_splits) addresses.
C7_TestFoldSize ==
    kf.pc = "yielded" /\ kf.weight_method = "none" /\ kf.n_splits <= Len(kf.full_grid_df) =>
        Len(kf.fold.test.grid_df) = Len(kf.full_grid_df) \div kf.n_splits

----------------------------------------------------------------------------
(* split_recursive with no selector *)

\* split_recursive was called with max_samples None, max_length None and
\* first_null false
NoSelectorCall ==
    /\ rec_pc # "idle"
    /\ IsNone(rec_args.max_samples) /\ IsNone(rec_args.max_length) /\ ~rec_args.first_null

\* C11: split_recursive called with none of the three selectors fails with an
\* error before any split is made, with the quadrants of the tree unchanged.
C11_NoSelectorRaises ==
    NoSelectorCall =>
        /\ rec_pc = "raised"
        /\ nsplits = 0 /\ tree_ids = << <<>> >>
        /\ tree_bounds = <<initial_bounds(dataframe, force_square)>>

----------------------------------------------------------------------------
(* weight_upsample with 'inverse-density' *)

\* how often an address is in a table
Occurrences(df, uid) == Cardinality({i \in DOMAIN df : df[i].uid = uid})

\* round(a / b) of Python, halves to the even neighbour
RoundRatio(a, b) ==
    LET q == a \div b
        r == a % b
    IN  IF 2 * r > b \/ (2 * r = b /\ q % 2 = 1) THEN q + 1 ELSE q

\* sample returned from a call with 'inverse-density': smp.pool is the table
\* that weight_upsample returned for the sorted quadrant table
InverseDensityCall == smp.status = "returned" /\ smp.weight_method = "inverse-density"

\* C12: with oversample = max(qcounts) / qcounts, weight_upsample with
\* 'inverse-density' returns every quadrant with oversample > 1 exactly
\* 1 + round(oversample) times and every other quadrant once, and every row
\* it returns is a row of the table it was given.
C12_InverseDensityCopies ==
    InverseDensityCall =>
        LET grid_df == frame_with_counts
            qmax_count == SetMax({grid_df[i].qcounts : i \in DOMAIN grid_df})
        IN  /\ \A i \in DOMAIN grid_df :
                  Occurrences(smp.pool, grid_df[i].uid) =
                      IF qmax_count > grid_df[i].qcounts
                      THEN 1 + RoundRatio(qmax_count, grid_df[i].qcounts)
                      ELSE 1
            /\ Range(smp.pool) \subseteq Range(grid_df)

----------------------------------------------------------------------------
(* split_recursive with max_samples *)

\* the call of C13: max_samples given, max_length None, first_null false,
\* min_thresh 0
MaxSamplesCall ==
    /\ rec_pc # "idle"
    /\ ~IsNone(rec_args.max_samples) /\ IsNone(rec_args.max_length) /\ ~rec_args.first_null
    /\ rec_args.min_thresh = 0

\* C13: split_recursive with max_samples = M (min_thresh 0) terminates for
\* every non-empty point set, coincident points included, and when it returns
\* the largest per-quadrant count is <= M or equal to the largest count after
\* the split before.
C13_MaxSamplesTerminates ==
    /\ [](rec_pc = "returned" /\ MaxSamplesCall =>
            \/ max_count_of(tree_bounds) <= Val(rec_args.max_samples)
            \/ nsplits >= 2 /\ max_count_of(tree_bounds) = last_split.max_before)
    /\ ((rec_pc = "loop" /\ MaxSamplesCall) ~> (rec_pc = "returned"))

\* C13's case: the call returned with more than M points in a quadrant, which
\* are coincident
C13_Witness ==
    /\ rec_pc = "returned" /\ MaxSamplesCall
    /\ max_count_of(tree_bounds) > Val(rec_args.max_samples)
    /\ \E i, j \in DOMAIN dataframe : i # j /\ dataframe[i] = dataframe[j]

----------------------------------------------------------------------------
(* One call of split *)

\* the child of a quadrant by its index: a half of each side, at the
\* lower-left (0), upper-left (1), lower-right (2) or upper-right (3) corner
ChildAtCorner(quad, qid) ==
    LET w == (right(quad) - left(quad)) \div 2
        h == (top(quad) - bottom(quad)) \div 2
        l == IF qid \in {0, 1} THEN left(quad) ELSE right(quad) - w
        b == IF qid \in {0, 2} THEN bottom(quad) ELSE top(quad) - h
    IN  <<l, b, l + w, b + h>>

PointsIn(bbox) == Cardinality(intersection(bbox))

\* the quadrants of a tree, as pairs of address and bounds
QuadrantsOf(ids, bounds) == {<<ids[i], bounds[i]>> : i \in DOMAIN ids}

\* C14: in one call of split(thresh) a child is kept if and only if it holds
\* more than thresh points, a kept child's address is its parent's address
\* followed by its index (0 lower left, 1 upper left, 2 lower right, 3 upper
\* right), and contains_null is true afterwards if and only if a child was
\* discarded in this call.
C14_SplitKeepsAboveThresh ==
    [][nsplits' = nsplits + 1 =>
        LET thresh == last_split'.thresh
            kids == {<<qi, qid>> : qi \in DOMAIN tree_bounds, qid \in 0..3}
            box(k) == ChildAtCorner(tree_bounds[k[1]], k[2])
            uid(k) == tree_ids[k[1]] \o <<k[2]>>
        IN  /\ QuadrantsOf(tree_ids', tree_bounds') =
                  {<<uid(k), box(k)>> : k \in {c \in kids : PointsIn(box(c)) > thresh}}
            /\ Len(tree_ids') = Cardinality({c \in kids : PointsIn(box(c)) > thresh})
            /\ contains_null' = "True" <=> \E c \in kids : PointsIn(box(c)) <= thresh
            /\ contains_null' \in {"True", "False"}
    ]_vars

\* C14's case: the second of two splits discarded no child after the first
\* had discarded some
C14_Witness ==
    /\ nsplits = 2 /\ contains_null = "False"
    /\ tree_ids # <<>> /\ Len(tree_ids) < 16

----------------------------------------------------------------------------
(* The first quadrant of a forced square *)

\* one rectangle lies inside another
Inside(a, b) ==
    /\ left(b) <= left(a) /\ right(a) <= right(b)
    /\ bottom(b) <= bottom(a) /\ top(a) <= top(b)

\* C15: with force_square = True the constructor makes the first quadrant a
\* square whose side is the shorter extent of the offset-expanded bounding
\* box, and which lies inside that box.
C15_ForceSquareShrinks ==
    force_square /\ nsplits = 0 =>
        LET bn == expanded_bounds(dataframe)
            shorter == Min(right(bn) - left(bn), top(bn) - bottom(bn))
            quad == tree_bounds[1]
        IN  /\ right(quad) - left(quad) = shorter
            /\ top(quad) - bottom(quad) = shorter
            /\ Inside(quad, bn)

----------------------------------------------------------------------------
(* The train points of a fold *)

\* C16: in every fold that split_kfold yields, no point of the train point
\* table lies inside a quadrant of the fold's test grid table.
C16_TrainPointsOutsideTestGrids ==
    kf.pc = "yielded" =>
        \A p \in Range(kf.fold.train.point_df), r \in DOMAIN kf.fold.test.grid_df :
            p \notin intersection(kf.fold.test.grid_df[r].bbox)

============================================================================
